---- MODULE Spec2Model ----
(***************************************************************************)
(* mactl: the command registry assembled by the init functions of package  *)
(* root (optimize.go, git.go, the env-var file), the dispatcher that       *)
(* resolves an argument vector along that registry, kustomize.Setup with   *)
(* the installer adapter it calls, and the release version bump.           *)
(***************************************************************************)
EXTENDS Integers, Sequences, FiniteSets, TLC

\* ------------------------------------------------------------------ bounds
MaxTail == 2
MaxSetupCalls == 4
MaxVer == 2
MaxPatch == 22

VARIABLES
    \* command registry (package root)
    commands,      \* command -> ordered list of its child commands (cobra c.commands)
    parent,        \* command -> its parent command, or NoCmd (cobra c.parent)
    initDone,      \* the init functions that have run
    initOrder,     \* the order in which they ran
    \* dispatcher
    mainPc,        \* "init" | "resolved" | "exited"
    argv,          \* the process arguments
    resolved,      \* the command the arguments resolved to, or NoCmd
    restArgs,      \* the arguments left after the resolved path
    invoked,       \* handler invocations: sequence of <<command, args>>
    dispErr,       \* the dispatcher's error, "" when none
    exitCode,      \* process exit code, -1 while running
    \* kustomize.Setup and the installer adapter
    setupPc,       \* position inside Setup / brew.Install
    events,        \* what the current Setup execution did, in order
    invocations,   \* Process Runner invocations of the current execution
    installed,     \* packages the package manager has installed
    installedAtCall, \* installed, as it was when the current Setup call began
    brewPresent,   \* whether the package manager itself is present
    installArg,    \* the package name brew.Install was called with
    installErr,    \* what brew.Install returned (NilErr: no error)
    setupResult,   \* what Setup returned (NilErr: nil)
    setupCalls,    \* number of Setup calls begun
    pastResults,   \* results of the finished Setup calls, oldest first
    \* release version bump
    tag,           \* the latest tag vMAJOR.MINOR.PATCH as <<MAJOR, MINOR, PATCH>>
    prevTag,       \* the tag before the last release
    lastBump       \* the bump type of the last release, "" before any

regVars == <<commands, parent, initDone, initOrder>>
dispVars == <<mainPc, argv, resolved, restArgs, invoked, dispErr, exitCode>>
setupVars == <<setupPc, events, invocations, installed, installedAtCall, brewPresent,
               installArg, installErr, setupResult, setupCalls, pastResults>>
verVars == <<tag, prevTag, lastBump>>
vars == <<regVars, dispVars, setupVars, verVars>>

\* ---------------------------------------------------------------- registry
NoCmd == "<none>"

\* The parent commands, named by their Use fields.
Optimize == "optimize"
Git == "git"
EnvVar == "env-var"

\* The child commands, package-level variables of packages optimize, git, envvar.
optimize_Dock == "optimize.Dock"
git_Config == "git.Config"
git_Ssh == "git.Ssh"
envvar_List == "envvar.List"
envvar_Add == "envvar.Add"

ParentCmds == {Optimize, Git, EnvVar}
ChildCmds == {optimize_Dock, git_Config, git_Ssh, envvar_List, envvar_Add}
Cmds == ParentCmds \cup ChildCmds

\* Name of a command: the first word of its Use field.
Name(c) ==
    CASE c = optimize_Dock -> "dock"
      [] c = git_Config -> "config"
      [] c = git_Ssh -> "ssh"
      [] c = envvar_List -> "list"
      [] c = envvar_Add -> "add"
      [] OTHER -> c

\* cobra's (*Command).AddCommand(cmds...): each command gets c as its parent and
\* is appended to c's children, in argument order.  No check for duplicates.
RECURSIVE AddCommand(_, _, _)
AddCommand(reg, c, cmds) ==
    IF cmds = <<>> THEN reg
    ELSE AddCommand(
            [commands |-> [reg.commands EXCEPT ![c] = Append(@, Head(cmds))],
             parent |-> [reg.parent EXCEPT ![Head(cmds)] = c]],
            c, Tail(cmds))

Registry == [commands |-> commands, parent |-> parent]

\* An init function of package root runs exactly once, before main.
RunInit(f, c, cmds) ==
    /\ mainPc = "init"
    /\ f \notin initDone
    /\ LET reg == AddCommand(Registry, c, cmds) IN
         /\ commands' = reg.commands
         /\ parent' = reg.parent
    /\ initDone' = initDone \cup {f}
    /\ initOrder' = Append(initOrder, f)
    /\ UNCHANGED <<dispVars, setupVars, verVars>>

OptimizeArgs == <<optimize_Dock>>
GitArgsDup == <<git_Config, git_Config>>
GitArgsSteal == <<git_Config, envvar_Add>>
GitArgs == <<git_Config, git_Ssh>>
EnvVarArgsNoAdd == <<envvar_List>>
EnvVarArgs == <<envvar_List, envvar_Add>>

InitOptimize == RunInit("optimize.go", Optimize, OptimizeArgs)
InitGitWrongParent == RunInit("git.go", EnvVar, GitArgs)
InitGit == RunInit("git.go", Git, GitArgs)
InitEnvVar == RunInit("env-var", EnvVar, EnvVarArgs)

InitFuncs == {"optimize.go", "git.go", "env-var"}

\* ---------------------------------------------------------------- dispatcher
\* Top-level commands of the tool.
TopLevel == <<Optimize, Git, EnvVar>>

\* Argument vectors: up to two leading words, each a command name or not, followed
\* by up to MaxTail further arguments.
ArgWords == {"optimize", "git", "env-var", "dock", "config", "ssh", "list", "add",
             "FOO", "bar"}
TailWords == {"FOO", "bar", "add"}
RECURSIVE SeqsUpTo(_, _)
SeqsUpTo(S, n) ==
    IF n = 0 THEN {<<>>}
    ELSE LET shorter == SeqsUpTo(S, n - 1) IN
         shorter \cup {Append(s, x) : s \in {t \in shorter : Len(t) = n - 1}, x \in S}
LeadingWords == {<<>>} \cup {<<w>> : w \in ArgWords} \cup (ArgWords \X ArgWords)
ArgVectors == {p \o t : p \in LeadingWords, t \in SeqsUpTo(TailWords, MaxTail)}

\* The children of `cur` (the root's are the top-level commands).
ChildrenOf(cur) == IF cur = NoCmd THEN TopLevel ELSE commands[cur]

\* The first child of `cur` named `w`, or NoCmd.
FindChild(cur, w) ==
    LET cs == ChildrenOf(cur)
        hits == {i \in 1..Len(cs) : Name(cs[i]) = w}
    IN IF hits = {} THEN NoCmd
       ELSE cs[CHOOSE i \in hits : \A j \in hits : i <= j]

\* Walk the leading names of `args` down the tree from `cur`.
RECURSIVE Find(_, _)
Find(cur, args) ==
    IF args = <<>> THEN [cmd |-> cur, args |-> args]
    ELSE LET next == FindChild(cur, Head(args)) IN
         IF next = NoCmd THEN [cmd |-> cur, args |-> args]
         ELSE Find(next, Tail(args))

IsLeaf(c) == c # NoCmd /\ commands[c] = <<>>

\* main: argument resolution, once every init function has run.
Resolve ==
    /\ mainPc = "init"
    /\ initDone = InitFuncs
    /\ \E a \in ArgVectors :
         LET r == Find(NoCmd, a) IN
           /\ argv' = a
           /\ resolved' = r.cmd
           /\ restArgs' = r.args
    /\ mainPc' = "resolved"
    /\ UNCHANGED <<invoked, dispErr, exitCode, regVars, setupVars, verVars>>

\* The resolved leaf's handler runs with the remaining arguments.
RunHandler ==
    /\ mainPc = "resolved"
    /\ IsLeaf(resolved)
    /\ invoked' = Append(invoked, <<resolved, restArgs>>)
    /\ exitCode' = 0
    /\ mainPc' = "exited"
    /\ UNCHANGED <<argv, resolved, restArgs, dispErr, regVars, setupVars, verVars>>

\* No path resolves to a leaf: usage error.
FailUnknown ==
    /\ mainPc = "resolved"
    /\ ~IsLeaf(resolved)
    /\ dispErr' = "UnknownCommandError"
    /\ exitCode' = 2
    /\ mainPc' = "exited"
    /\ UNCHANGED <<argv, resolved, restArgs, invoked, regVars, setupVars, verVars>>

InitRegistryVars ==
    /\ commands = [c \in Cmds |-> <<>>]
    /\ parent = [c \in Cmds |-> NoCmd]
    /\ initDone = {}
    /\ initOrder = <<>>
    /\ mainPc = "init"
    /\ argv = <<>>
    /\ resolved = NoCmd
    /\ restArgs = <<>>
    /\ invoked = <<>>
    /\ dispErr = ""
    /\ exitCode = -1

\* ------------------------------------------------- kustomize.Setup, brew.Install
BrewPkg == "kustomize"
OtherPkg == "kubectl"
Packages == {BrewPkg, OtherPkg}

\* Go errors as their chain of messages, outermost first; nil is the empty chain.
NilErr == <<>>
SetupErrMsg == "failed to install kustomize"

\* errors.Wrap(err, msg): nil stays nil, otherwise msg is put in front of the cause.
Wrap(err, msg) == IF err = NilErr THEN NilErr ELSE <<msg>> \o err

LogEvent(m) == <<"log", m>>
CallEvent(pkg) == <<"call", "brew.Install", pkg>>
RetEvent(err) == <<"ret", "brew.Install">> \o err
ReturnEvent(err) == <<"return">> \o err

QueryInvocation(pkg) == <<"brew.Install", "brew", "list", pkg>>
InstallInvocation(pkg) == <<"brew.Install", "brew", "install", pkg>>

regDispVerVars == <<regVars, dispVars, verVars>>

\* Setup, line 14: log.Info("installing kustomize").
SetupLogStart ==
    /\ setupPc = "idle"
    /\ setupCalls < MaxSetupCalls
    /\ setupCalls' = setupCalls + 1
    /\ events' = <<LogEvent("installing kustomize")>>
    /\ invocations' = <<>>
    /\ installedAtCall' = installed
    /\ installErr' = NilErr
    /\ setupResult' = NilErr
    /\ installArg' = ""
    /\ setupPc' = "logged"
    /\ UNCHANGED <<installed, brewPresent, pastResults, regDispVerVars>>

\* Setup, line 15: the call brew.Install(BrewPkg).
SetupCallInstallWrongPkg ==
    /\ setupPc = "logged"
    /\ installArg' = OtherPkg
    /\ events' = Append(events, CallEvent(OtherPkg))
    /\ setupPc' = "brew_query"
    /\ UNCHANGED <<invocations, installed, installedAtCall, brewPresent, installErr,
                   setupResult, setupCalls, pastResults, regDispVerVars>>

SetupCallInstall ==
    /\ setupPc = "logged"
    /\ installArg' = BrewPkg
    /\ events' = Append(events, CallEvent(BrewPkg))
    /\ setupPc' = "brew_query"
    /\ UNCHANGED <<invocations, installed, installedAtCall, brewPresent, installErr,
                   setupResult, setupCalls, pastResults, regDispVerVars>>

\* brew.Install returns err to Setup.
BrewReturn(err) ==
    /\ installErr' = err
    /\ events' = Append(events, RetEvent(err))
    /\ setupPc' = "returned"

\* Installer Adapter: the query invocation.  The package manager is missing:
\* InstallError{DependencyMissing}.  The target is installed: AlreadyInstalled,
\* nothing mutated.  Otherwise go on to the install invocation.
BrewQueryAlwaysInstalls ==
    /\ setupPc = "brew_query"
    /\ invocations' = Append(invocations, QueryInvocation(installArg))
    /\ setupPc' = "brew_install"
    /\ UNCHANGED <<events, installErr, installed, installedAtCall, brewPresent, installArg,
                   setupResult, setupCalls, pastResults, regDispVerVars>>

BrewQuery ==
    /\ setupPc = "brew_query"
    /\ invocations' = Append(invocations, QueryInvocation(installArg))
    /\ IF ~brewPresent THEN BrewReturn(<<"DependencyMissing">>)
       ELSE IF installArg \in installed THEN BrewReturn(NilErr)
       ELSE /\ setupPc' = "brew_install"
            /\ UNCHANGED <<events, installErr>>
    /\ UNCHANGED <<installed, installedAtCall, brewPresent, installArg, setupResult,
                   setupCalls, pastResults, regDispVerVars>>

\* Installer Adapter: the install invocation succeeds (Installed).
BrewInstallOk ==
    /\ setupPc = "brew_install"
    /\ invocations' = Append(invocations, InstallInvocation(installArg))
    /\ installed' = installed \cup {installArg}
    /\ BrewReturn(NilErr)
    /\ UNCHANGED <<installedAtCall, brewPresent, installArg, setupResult, setupCalls,
                   pastResults, regDispVerVars>>

\* Installer Adapter: the install invocation fails (InstallError{InstallFailed}).
BrewInstallFail ==
    /\ setupPc = "brew_install"
    /\ invocations' = Append(invocations, InstallInvocation(installArg))
    /\ BrewReturn(<<"InstallFailed">>)
    /\ UNCHANGED <<installed, installedAtCall, brewPresent, installArg, setupResult,
                   setupCalls, pastResults, regDispVerVars>>

\* Setup returns res to its caller.
SetupReturn(evs, res) ==
    /\ setupResult' = res
    /\ events' = Append(evs, ReturnEvent(res))
    /\ pastResults' = Append(pastResults, res)
    /\ setupPc' = "idle"
    /\ UNCHANGED <<invocations, installed, installedAtCall, brewPresent, installErr,
                   installArg, setupCalls, regDispVerVars>>

CallCount(evs) == Cardinality({i \in 1..Len(evs) : evs[i][1] = "call"})

\* Setup, lines 15-17: err != nil, return errors.Wrap(err, "failed to install kustomize").
SetupReturnErrRetry ==
    /\ setupPc = "returned"
    /\ installErr # NilErr
    /\ IF CallCount(events) < 2
       THEN /\ setupPc' = "logged"
            /\ UNCHANGED <<events, invocations, installed, installedAtCall, brewPresent,
                           installErr, installArg, setupResult, setupCalls, pastResults,
                           regDispVerVars>>
       ELSE SetupReturn(events, Wrap(installErr, SetupErrMsg))

SetupReturnErrLogs ==
    /\ setupPc = "returned"
    /\ installErr # NilErr
    /\ SetupReturn(Append(events, LogEvent(SetupErrMsg)), Wrap(installErr, SetupErrMsg))

SetupReturnErr ==
    /\ setupPc = "returned"
    /\ installErr # NilErr
    /\ SetupReturn(events, Wrap(installErr, SetupErrMsg))

\* Setup, lines 18-19: log.Info("installed kustomize"), return nil.
SetupReturnOkSilent ==
    /\ setupPc = "returned"
    /\ installErr = NilErr
    /\ SetupReturn(events, NilErr)

SetupReturnOk ==
    /\ setupPc = "returned"
    /\ installErr = NilErr
    /\ SetupReturn(Append(events, LogEvent("installed kustomize")), NilErr)

InitSetupVars ==
    /\ setupPc = "idle"
    /\ events = <<>>
    /\ invocations = <<>>
    /\ installed = {}
    /\ installedAtCall = {}
    /\ brewPresent = TRUE
    /\ installErr = NilErr
    /\ installArg = ""
    /\ setupResult = NilErr
    /\ setupCalls = 0
    /\ pastResults = <<>>

\* Setup may be called on any machine: with or without the package manager, and,
\* when it is there, with any set of packages already installed.
InitSetupEnv ==
    /\ setupPc = "idle"
    /\ events = <<>>
    /\ invocations = <<>>
    /\ brewPresent \in BOOLEAN
    /\ installed \in SUBSET Packages
    /\ ~brewPresent => installed = {}
    /\ installedAtCall = installed
    /\ installErr = NilErr
    /\ installArg = ""
    /\ setupResult = NilErr
    /\ setupCalls = 0
    /\ pastResults = <<>>

\* ------------------------------------------------------- release version bump
\* The next version after `v` for bump type `b`: the bumped component goes up by
\* one and every component after it is reset to 0.
BumpIndex(b) == CASE b = "major" -> 1 [] b = "minor" -> 2 [] OTHER -> 3

NextVersionNoReset(v, b) == [v EXCEPT ![BumpIndex(b)] = @ + 1]

NextVersion(v, b) ==
    [i \in 1..3 |-> IF i < BumpIndex(b) THEN v[i]
                    ELSE IF i = BumpIndex(b) THEN v[i] + 1
                    ELSE 0]

\* make release bump=<b>: tag the next version.
Release(b) ==
    /\ tag[1] <= MaxVer /\ tag[2] <= MaxVer /\ tag[3] <= MaxPatch
    /\ prevTag' = tag
    /\ tag' = NextVersion(tag, b)
    /\ lastBump' = b
    /\ UNCHANGED <<regVars, dispVars, setupVars>>

ReleasePatch == Release("patch")
ReleaseMinor == Release("minor")
ReleaseMajor == Release("major")

InitVerVars ==
    /\ tag = <<0, 0, 0>>
    /\ prevTag = <<0, 0, 0>>
    /\ lastBump = ""

InitVerTags ==
    /\ tag \in (0..MaxVer) \X (0..MaxVer) \X (0..MaxPatch)
    /\ prevTag = tag
    /\ lastBump = ""

\* ------------------------------------------------------------- specifications
Init == InitRegistryVars /\ InitSetupVars /\ InitVerVars

Next ==
    \/ InitOptimize
    \/ InitGit
    \/ InitEnvVar
    \/ Resolve
    \/ RunHandler
    \/ FailUnknown

Spec == Init /\ [][Next]_vars

SetupInit == InitRegistryVars /\ InitSetupEnv /\ InitVerVars

SetupNext ==
    \/ SetupLogStart
    \/ SetupCallInstall
    \/ BrewQuery
    \/ BrewInstallOk
    \/ BrewInstallFail
    \/ SetupReturnErr
    \/ SetupReturnOk

SetupSpec == SetupInit /\ [][SetupNext]_vars

VersionInit == InitRegistryVars /\ InitSetupVars /\ InitVerTags

VersionNext ==
    \/ ReleasePatch
    \/ ReleaseMinor
    \/ ReleaseMajor

VersionSpec == VersionInit /\ [][VersionNext]_vars

\* =================================================================== claims
Range(q) == {q[i] : i \in 1..Len(q)}
AllInitsDone == initDone = InitFuncs

ExpectedCommands ==
    [c \in Cmds |-> CASE c = Optimize -> <<optimize_Dock>>
                      [] c = Git -> <<git_Config, git_Ssh>>
                      [] c = EnvVar -> <<envvar_List, envvar_Add>>
                      [] OTHER -> <<>>]
ExpectedParent ==
    [c \in Cmds |-> CASE c = optimize_Dock -> Optimize
                      [] c \in {git_Config, git_Ssh} -> Git
                      [] c \in {envvar_List, envvar_Add} -> EnvVar
                      [] OTHER -> NoCmd]
InitOf(p) == CASE p = Optimize -> "optimize.go" [] p = Git -> "git.go" [] OTHER -> "env-var"

Places(c) == {pi \in Cmds \X (1..3) : pi[2] <= Len(commands[pi[1]]) /\ commands[pi[1]][pi[2]] = c}

\* The commands above c, following parent links at most n times.
RECURSIVE AncestorsWithin(_, _)
AncestorsWithin(c, n) ==
    IF n = 0 \/ parent[c] = NoCmd THEN {}
    ELSE {parent[c]} \cup AncestorsWithin(parent[c], n - 1)

\* C6: once every init function has run, and through argument resolution and
\* handler execution, the registry is a strict tree with exactly the children
\* optimize -> dock; git -> config, ssh; env-var -> list, add, in that order.
C6_StrictTreeImmutable ==
    AllInitsDone =>
        /\ \A c \in Cmds : Cardinality(Places(c)) <= 1
        /\ \A c \in Cmds : \A pi \in Places(c) : parent[c] = pi[1]
        /\ \A c \in Cmds : c \notin AncestorsWithin(c, Cardinality(Cmds))
        /\ Range(commands[Optimize]) = {optimize_Dock}
        /\ Range(commands[Git]) = {git_Config, git_Ssh}
        /\ Range(commands[EnvVar]) = {envvar_List, envvar_Add}
        /\ \A c \in ChildCmds : commands[c] = <<>>
        /\ commands = ExpectedCommands
        /\ parent = ExpectedParent

C6_Witness ==
    /\ mainPc = "exited"
    /\ invoked # <<>>
    /\ commands = ExpectedCommands

\* The leading two names of the arguments lead to leaf c under top-level p.
LeadsTo(a, p, c) ==
    /\ Len(a) >= 2
    /\ p \in Range(TopLevel)
    /\ a[1] = Name(p)
    /\ c \in Range(commands[p])
    /\ a[2] = Name(c)
    /\ commands[c] = <<>>
HasLeafPath(a) == \E p \in Cmds, c \in Cmds : LeadsTo(a, p, c)
FirstNameUnknown(a) == a = <<>> \/ \A p \in Range(TopLevel) : a[1] # Name(p)

HandlerCase ==
    \E p \in Cmds, c \in Cmds :
        /\ LeadsTo(argv, p, c)
        /\ invoked = << <<c, SubSeq(argv, 3, Len(argv))>> >>
        /\ dispErr = ""
        /\ exitCode = 0
UnknownCase ==
    /\ invoked = <<>>
    /\ dispErr = "UnknownCommandError"
    /\ exitCode = 2

C9_OrderIndependent ==
    /\ \A p \in ParentCmds :
         commands[p] = IF InitOf(p) \in initDone THEN ExpectedCommands[p] ELSE <<>>
    /\ \A c \in ChildCmds :
         /\ commands[c] = <<>>
         /\ parent[c] = IF InitOf(ExpectedParent[c]) \in initDone
                        THEN ExpectedParent[c] ELSE NoCmd
    /\ \A p \in ParentCmds : parent[p] = NoCmd

C9_Witness ==
    /\ initOrder = <<"git.go", "env-var", "optimize.go">>
    /\ commands = ExpectedCommands
    /\ parent = ExpectedParent

\* ------------------------------------------------------------ Setup claims
Finished == setupPc = "idle" /\ setupCalls > 0
Indices(evs, kind) == {i \in 1..Len(evs) : evs[i][1] = kind}
InstallInvocations == {i \in 1..Len(invocations) : invocations[i][3] = "install"}

\* C1: a Setup call begun with kustomize installed sends no install invocation,
\* leaves the installed packages unchanged and returns nil.
C1_NoInstallWhenInstalled ==
    (setupCalls > 0 /\ BrewPkg \in installedAtCall) =>
        /\ InstallInvocations = {}
        /\ installed = installedAtCall
        /\ Finished => setupResult = NilErr

C1_Witness ==
    /\ Finished
    /\ BrewPkg \in installedAtCall
    /\ invocations = <<QueryInvocation(BrewPkg)>>
    /\ setupResult = NilErr

\* C2: every Setup call makes exactly one Installer Adapter call, with the
\* package "kustomize"; every external invocation is the adapter's, for that
\* package; the result is decided by what that one call returned, whatever
\* earlier calls returned.
C2_DelegatesOnce ==
    /\ \A i \in Indices(events, "call") : events[i] = <<"call", "brew.Install", "kustomize">>
    /\ Cardinality(Indices(events, "call")) <= 1
    /\ \A i \in 1..Len(invocations) :
         invocations[i][1] = "brew.Install" /\ invocations[i][4] = "kustomize"
    /\ Finished =>
         /\ Cardinality(Indices(events, "call")) = 1
         /\ Cardinality(Indices(events, "ret")) = 1
         /\ \A e \in {<<>>, <<"InstallFailed">>, <<"DependencyMissing">>} :
              installErr = e => setupResult = IF e = <<>> THEN <<>> ELSE <<SetupErrMsg>> \o e
         /\ pastResults[Len(pastResults)] = setupResult

C2_Witness ==
    /\ Finished
    /\ Len(pastResults) >= 2
    /\ pastResults[1] # NilErr
    /\ pastResults[2] = NilErr

\* C3: Setup returns an error exactly when its brew.Install call did, the error
\* wraps that cause under "failed to install kustomize", and a failed install is
\* not attempted again before Setup returns.
C3_FailureTerminal ==
    /\ Cardinality(InstallInvocations) <= 1
    /\ Cardinality(Indices(events, "call")) <= 1
    /\ Finished =>
         /\ (setupResult # NilErr) <=> (installErr # NilErr)
         /\ installErr # NilErr =>
              /\ Head(setupResult) = "failed to install kustomize"
              /\ Tail(setupResult) = installErr
              /\ events[Len(events)] = ReturnEvent(setupResult)
              /\ events[Len(events) - 1] = RetEvent(installErr)

C3_Witness ==
    /\ Finished
    /\ installErr = <<"InstallFailed">>
    /\ setupResult = <<"failed to install kustomize", "InstallFailed">>
    /\ Cardinality(InstallInvocations) = 1

\* C4 as stated: a Setup execution that returns an error has emitted no log line.
C4_Original ==
    (Finished /\ setupResult # NilErr) => Indices(events, "log") = {}

\* C4 amended: in a Setup execution that returns an error, the only line Setup
\* has emitted is the progress line "installing kustomize", before the adapter
\* call; it emits nothing once the failure is known.
C4_NoOutputAfterFailure ==
    (Finished /\ setupResult # NilErr) =>
        /\ Indices(events, "log") = {1}
        /\ events[1] = <<"log", "installing kustomize">>
        /\ \A i \in Indices(events, "call") \cup Indices(events, "ret") : i > 1

C4_Witness ==
    /\ Finished
    /\ setupResult = <<"failed to install kustomize", "DependencyMissing">>
    /\ Len(events) = 4

\* C10: "installing kustomize" is emitted before the brew.Install call starts;
\* "installed kustomize" is emitted exactly when brew.Install returned no error,
\* after that return and immediately before Setup returns nil.
InstalledLines == {i \in 1..Len(events) : events[i] = <<"log", "installed kustomize">>}
C10_ProgressOrdered ==
    setupCalls > 0 =>
        /\ events[1] = <<"log", "installing kustomize">>
        /\ \A i \in Indices(events, "call") : i > 1
        /\ ~Finished => InstalledLines = {}
        /\ (Finished /\ installErr # NilErr) =>
              InstalledLines = {} /\ setupResult # NilErr
        /\ (Finished /\ installErr = NilErr) =>
              /\ InstalledLines = {Len(events) - 1}
              /\ events[Len(events)] = <<"return">>
              /\ events[Len(events) - 2] = <<"ret", "brew.Install">>
              /\ setupResult = NilErr

C10_Witness ==
    /\ Finished
    /\ installErr = NilErr
    /\ InstallInvocations # {}
    /\ InstalledLines # {}

\* ---------------------------------------------------------- version claim
\* Semantic-version order on <<MAJOR, MINOR, PATCH>>.
SemverLess(a, b) ==
    \/ a[1] < b[1]
    \/ a[1] = b[1] /\ a[2] < b[2]
    \/ a[1] = b[1] /\ a[2] = b[2] /\ a[3] < b[3]

\* C8: a patch bump of vM.m.p gives vM.m.(p+1), a minor bump vM.(m+1).0, a major
\* bump v(M+1).0.0, and the result is above the current version in semver order.
C8_VersionBump ==
    lastBump # "" =>
        /\ lastBump = "patch" => tag = <<prevTag[1], prevTag[2], prevTag[3] + 1>>
        /\ lastBump = "minor" => tag = <<prevTag[1], prevTag[2] + 1, 0>>
        /\ lastBump = "major" => tag = <<prevTag[1] + 1, 0, 0>>
        /\ SemverLess(prevTag, tag)
        /\ ~SemverLess(tag, prevTag)

C8_Witness ==
    /\ lastBump = "minor"
    /\ prevTag = <<0, 0, 21>>
    /\ tag = <<0, 1, 0>>
====
